---- MODULE Spec2Model ----
(***************************************************************************)
(* A model of scm-report-parser.py: the locator resolver, the path         *)
(* formatter, the record aggregator, the section renderers, the report     *)
(* assembler and main with its two loaders.                                *)
(*                                                                         *)
(* Text is modelled as a sequence of tokens.  Each token stands for one    *)
(* fixed piece of text:                                                    *)
(*     "/"  the separator            "P"  the literal  entry[@name=        *)
(*     "Q"  a double quote           "R"  the closing bracket  ]           *)
(*     "e"  the word  entry          "a", "b"  ordinary tag/name text      *)
(* No concatenation of the other tokens spells the text of "P", so         *)
(* `'entry[@name=' in part` is "P occurs in part", and the regular         *)
(* expression entry\[@name="([^"]+)"\] can only match starting at a "P".   *)
(***************************************************************************)
EXTENDS Integers, Sequences, FiniteSets, TLC

VARIABLES
    xml_root,    \* the configuration tree handed to the resolver, or NoTree
    xpath,       \* the locator expression handed to the resolver / formatter
    data,        \* the input document: an ordered list of sections
    pc,          \* "start" before the operation under study ran, "done" after;
                 \* in a run of main, the step main is about to take
    out,         \* what the operation returned
    clock,       \* the wall clock datetime.now() reads, in ticks
    argv,        \* sys.argv: the program name, then the arguments
    disk_input,  \* the file the primary input path names
    disk_xml,    \* the file the --xml path names
    input_file,  \* main's local input_file
    output_file, \* main's local output_file, or NoPath for None
    xml_file,    \* main's local xml_file, or NoPath for None
    opened,      \* the paths opened for reading so far, in order
    written,     \* the files written so far: path and content, in order
    log,         \* the messages printed so far, in order
    exit_code    \* the exit status of the process, or Running

\* what only a run of main reads or changes
main_vars == <<argv, disk_input, disk_xml, input_file, output_file, xml_file,
               opened, written, log, exit_code>>

vars == <<xml_root, xpath, data, pc, out, clock, main_vars>>

\* ---------------------------------------------------------------- bounds
MaxSegs == 2        \* segments in a generated locator expression
MaxNodes == 4       \* nodes of a generated configuration tree (root included)
MaxRecs == 2        \* records in the details of a generated flat section
MaxSections == 2    \* sections of a generated input document
MaxGroups == 3      \* device groups of a generated Device Groups section

\* ---------------------------------------------------------------- no run of main
\* None, for a path
NoPath == <<>>

\* the exit status of a process that has not exited
Running == -1

\* a file that is not there
NoFile == [state |-> "missing"]

\* the functions are studied on their own: no process, the clock at rest
NoProcess ==
    /\ clock = 0
    /\ argv = <<>>
    /\ disk_input = NoFile
    /\ disk_xml = NoFile
    /\ input_file = NoPath
    /\ output_file = NoPath
    /\ xml_file = NoPath
    /\ opened = <<>>
    /\ written = <<>>
    /\ log = <<>>
    /\ exit_code = Running

\* ---------------------------------------------------------------- text
SLASH == "/"

RECURSIVE LStrip(_)
\* str.strip('/'), left side
LStrip(s) ==
    IF s # <<>> /\ Head(s) = SLASH THEN LStrip(Tail(s)) ELSE s

RECURSIVE RStrip(_)
\* str.strip('/'), right side
RStrip(s) ==
    IF s # <<>> /\ s[Len(s)] = SLASH THEN RStrip(SubSeq(s, 1, Len(s) - 1)) ELSE s

\* str.strip('/')
Strip(s) == RStrip(LStrip(s))

\* index of the first occurrence of token c in s at or after position from, 0 if none
RECURSIVE IndexFrom(_, _, _)
IndexFrom(s, c, from) ==
    IF from > Len(s) THEN 0
    ELSE IF s[from] = c THEN from
    ELSE IndexFrom(s, c, from + 1)

RECURSIVE Split(_)
\* str.split('/'): always at least one piece, empty pieces kept
Split(s) ==
    LET i == IndexFrom(s, SLASH, 1) IN
    IF i = 0 THEN <<s>>
    ELSE <<SubSeq(s, 1, i - 1)>> \o Split(SubSeq(s, i + 1, Len(s)))

RECURSIVE Join(_)
\* '/'.join(parts)
Join(parts) ==
    IF parts = <<>> THEN <<>>
    ELSE IF Len(parts) = 1 THEN parts[1]
    ELSE parts[1] \o <<SLASH>> \o Join(Tail(parts))

\* 'entry[@name=' in part
HasPredicatePrefix(part) == \E i \in 1..Len(part) : part[i] = "P"

\* Does entry\[@name="([^"]+)"\] match part starting at position i?  The
\* group [^"]+ runs to the next quote, which must leave at least one token
\* in the group and be followed by the closing bracket.
MatchAt(part, i) ==
    /\ i + 1 <= Len(part)
    /\ part[i] = "P"
    /\ part[i + 1] = "Q"
    /\ LET j == IndexFrom(part, "Q", i + 2) IN
        /\ j > i + 2
        /\ j + 1 <= Len(part)
        /\ part[j + 1] = "R"

\* re.search(r'entry\[@name="([^"]+)"\]', part): the leftmost match.
\* [matched |-> FALSE] for no match, else the text of group(1).
ReSearch(part) ==
    LET hits == {i \in 1..Len(part) : MatchAt(part, i)} IN
    IF hits = {} THEN [matched |-> FALSE, group1 |-> <<>>]
    ELSE LET i == CHOOSE k \in hits : \A h \in hits : k <= h
             j == IndexFrom(part, "Q", i + 2)
         IN [matched |-> TRUE, group1 |-> SubSeq(part, i + 2, j - 1)]

\* ---------------------------------------------------------------- path formatter
\* FormatParts leaving out a segment whose predicate does not match
RECURSIVE FormatPartsDropMalformed(_)
FormatPartsDropMalformed(parts) ==
    IF parts = <<>> THEN <<>>
    ELSE LET part == Head(parts)
             m == ReSearch(part)
         IN IF HasPredicatePrefix(part) /\ ~m.matched
            THEN FormatPartsDropMalformed(Tail(parts))
            ELSE <<IF m.matched THEN m.group1 ELSE part>>
                    \o FormatPartsDropMalformed(Tail(parts))

RECURSIVE FormatParts(_)
\* the loop of format_xpath over parts, building formatted_parts
FormatParts(parts) ==
    IF parts = <<>> THEN <<>>
    ELSE LET part == Head(parts)
             m == ReSearch(part)
             piece == IF HasPredicatePrefix(part)
                      THEN (IF m.matched THEN m.group1 ELSE part)
                      ELSE part
         IN <<piece>> \o FormatParts(Tail(parts))

\* format_xpath with the resolver's way of splitting (empty pieces dropped)
format_xpath_nonempty(p) ==
    <<SLASH>> \o Join(FormatParts(SelectSeq(Split(Strip(p)), LAMBDA s : s # <<>>)))

format_xpath(p) == <<SLASH>> \o Join(FormatParts(Split(Strip(p))))

\* ---------------------------------------------------------------- configuration tree
\* A tree is a node table: node 1 is the root, parent[i] < i, and the
\* children of a node are the nodes naming it as parent, in document order
\* (ascending index).  name[i] = <<>> is a node without a name attribute.
NoTree == [parent |-> <<>>, tag |-> <<>>, name |-> <<>>]

Children(t, n) == {i \in 1..Len(t.parent) : t.parent[i] = n}

\* list(element): the children of n in document order
RECURSIVE SortedSeq(_)
SortedSeq(S) ==
    IF S = {} THEN <<>>
    ELSE LET m == CHOOSE x \in S : \A y \in S : x <= y
         IN <<m>> \o SortedSeq(S \ {m})

ChildSeq(t, n) == SortedSeq(Children(t, n))

RECURSIVE ET_tostring(_, _)
RECURSIVE ET_tostring_all(_, _)
\* ET.tostring(element): the markup of the subtree rooted at n
ET_tostring(t, n) ==
    <<"<">> \o t.tag[n]
        \o (IF t.name[n] = <<>> THEN <<>> ELSE <<"name=">> \o t.name[n])
        \o <<">">> \o ET_tostring_all(t, ChildSeq(t, n)) \o <<"</">> \o t.tag[n] \o <<">">>
ET_tostring_all(t, kids) ==
    IF kids = <<>> THEN <<>>
    ELSE ET_tostring(t, Head(kids)) \o ET_tostring_all(t, Tail(kids))

\* ---------------------------------------------------------------- locator resolver
\* the value None of the resolver and the text it returns otherwise
NoneResult == [none |-> TRUE, text |-> <<>>, raised |-> FALSE]
Text(s) == [none |-> FALSE, text |-> s, raised |-> FALSE]
\* an exception leaving the function
Raised == [none |-> FALSE, text |-> <<>>, raised |-> TRUE]
\* a locator that is not text (a JSON number where a path is expected):
\* xpath.split raises AttributeError on it
NotAString == <<"#number">>

RECURSIVE FirstEntryNamed(_, _, _)
\* for child in current: if child.tag == 'entry' and child.get('name') == name_value: break
\* 0 when the loop ends without a match
FirstEntryNamed(t, kids, name_value) ==
    IF kids = <<>> THEN 0
    ELSE IF t.tag[Head(kids)] = <<"e">> /\ t.name[Head(kids)] = name_value
         THEN Head(kids)
    ELSE FirstEntryNamed(t, Tail(kids), name_value)

\* FirstTagged taking the last matching child instead of the first
RECURSIVE FirstTaggedLast(_, _, _)
FirstTaggedLast(t, kids, part) ==
    IF kids = <<>> THEN 0
    ELSE IF t.tag[kids[Len(kids)]] = part THEN kids[Len(kids)]
    ELSE FirstTaggedLast(t, SubSeq(kids, 1, Len(kids) - 1), part)

RECURSIVE FirstTagged(_, _, _)
\* for child in current: if child.tag == part: break
FirstTagged(t, kids, part) ==
    IF kids = <<>> THEN 0
    ELSE IF t.tag[Head(kids)] = part THEN Head(kids)
    ELSE FirstTagged(t, Tail(kids), part)

\* Walk returning the node reached so far when a segment finds no child
RECURSIVE WalkPartial(_, _, _)
WalkPartial(t, current, parts) ==
    IF parts = <<>> THEN current
    ELSE LET part == Head(parts)
             m == ReSearch(part)
             next == IF HasPredicatePrefix(part)
                     THEN (IF m.matched
                           THEN FirstEntryNamed(t, ChildSeq(t, current), m.group1)
                           ELSE 0)
                     ELSE FirstTagged(t, ChildSeq(t, current), part)
         IN IF next = 0 THEN current ELSE WalkPartial(t, next, Tail(parts))

RECURSIVE Walk(_, _, _)
\* the loop `for part in parts` of extract_xml_from_xpath, from node current;
\* 0 stands for the early `return None`
Walk(t, current, parts) ==
    IF parts = <<>> THEN current
    ELSE LET part == Head(parts)
             m == ReSearch(part)
             next == IF HasPredicatePrefix(part)
                     THEN (IF m.matched
                           THEN FirstEntryNamed(t, ChildSeq(t, current), m.group1)
                           ELSE 0)
                     ELSE FirstTagged(t, ChildSeq(t, current), part)
         IN IF next = 0 THEN 0 ELSE Walk(t, next, Tail(parts))

\* parts = [p for p in xpath.split('/') if p]
NonEmptyParts(p) == SelectSeq(Split(p), LAMBDA s : s # <<>>)

\* the body of the try block: split, walk, serialize
TryBody(root, p) ==
    IF p = NotAString THEN Raised
    ELSE LET n == Walk(root, 1, NonEmptyParts(p))
         IN IF n = 0 THEN NoneResult ELSE Text(ET_tostring(root, n))

extract_xml_from_xpath(root, p) ==
    IF root = NoTree THEN NoneResult
    ELSE LET r == TryBody(root, p)
         IN IF r.raised THEN NoneResult   \* except Exception: return None
            ELSE r

\* ---------------------------------------------------------------- generated inputs
\* the segments locator expressions are built from
Pred(v) == <<"P", "Q">> \o v \o <<"Q", "R">>
SegmentPool ==
    { <<"a">>, <<"e">>,                     \* bare tags
      Pred(<<"a">>), Pred(<<"b">>),         \* entry[@name="a"], entry[@name="b"]
      <<"P", "Q", "a", "Q">>,               \* entry[@name="a"   (no closing bracket)
      <<"b">> \o Pred(<<"a">>) \o <<"b">>   \* text around a well-formed predicate
    }

RECURSIVE SeqsUpTo(_, _)
\* all sequences over S of length at most n
SeqsUpTo(S, n) ==
    IF n = 0 THEN {<<>>}
    ELSE LET shorter == SeqsUpTo(S, n - 1)
         IN shorter \cup {<<x>> \o s : x \in S, s \in {q \in shorter : Len(q) = n - 1}}

\* locator expressions in the form the input document carries: a leading
\* separator, then the segments
ResolverPaths ==
    {<<SLASH>> \o Join(segs) : segs \in SeqsUpTo(SegmentPool, MaxSegs)} \cup {NotAString}

\* the formatter also sees empty segments, doubled and trailing separators,
\* and more shapes that carry the predicate prefix without matching
FormatSegmentPool ==
    SegmentPool \cup
    { <<>>,
      <<"P", "Q", "Q", "R">>,               \* entry[@name=""]
      <<"P", "a">>,                         \* entry[@name=a
      Pred(<<"R">>),                        \* entry[@name="]"]
      Pred(<<"a">>) \o Pred(<<"b">>),       \* two predicates in one segment
      <<"Q", "a", "R">>                     \* "a]  (no prefix at all)
    }
Separators == {<<>>, <<SLASH>>, <<SLASH, SLASH>>}
FormatPaths ==
    {lead \o Join(segs) \o trail :
        lead \in Separators, trail \in Separators,
        segs \in SeqsUpTo(FormatSegmentPool, MaxSegs + 1)}

NodeLabels ==
    { [tag |-> <<"a">>, name |-> <<>>],
      [tag |-> <<"a">>, name |-> <<"a">>],
      [tag |-> <<"e">>, name |-> <<"a">>] }

\* all trees of exactly n nodes: the root is <a>, every other node hangs
\* under an earlier node
TreesOfSize(n) ==
    { [parent |-> par, tag |-> [i \in 1..n |-> lab[i].tag], name |-> [i \in 1..n |-> lab[i].name]] :
        par \in {p \in [1..n -> 0..(n - 1)] : p[1] = 0 /\ \A i \in 2..n : p[i] >= 1 /\ p[i] < i},
        lab \in {l \in [1..n -> NodeLabels] : l[1] = [tag |-> <<"a">>, name |-> <<>>]} }

Trees == UNION {TreesOfSize(n) : n \in 1..MaxNodes}

EmptyData == <<>>

\* ---------------------------------------------------------------- the resolver's specification
InitResolve ==
    /\ xml_root \in Trees \cup {NoTree}
    /\ xpath \in ResolverPaths
    /\ data = EmptyData
    /\ pc = "start"
    /\ out = NoneResult
    /\ NoProcess

ExtractXml ==
    /\ pc = "start"
    /\ out' = extract_xml_from_xpath(xml_root, xpath)
    /\ pc' = "done"
    /\ UNCHANGED <<xml_root, xpath, data, clock, main_vars>>

NextResolve == ExtractXml

SpecResolve == InitResolve /\ [][NextResolve]_vars

\* ---------------------------------------------------------------- the formatter's specification
InitFormat ==
    /\ xml_root = NoTree
    /\ xpath \in FormatPaths
    /\ data = EmptyData
    /\ pc = "start"
    /\ out = NoneResult
    /\ NoProcess

FormatXpath ==
    /\ pc = "start"
    /\ out' = Text(format_xpath(xpath))
    /\ pc' = "done"
    /\ UNCHANGED <<xml_root, xpath, data, clock, main_vars>>

NextFormat == FormatXpath

SpecFormat == InitFormat /\ [][NextFormat]_vars


\* ---------------------------------------------------------------- JSON values
\* A JSON object is a function from the keys it holds to their values; a
\* JSON list is a sequence; a JSON object whose key order matters (the
\* template maps) is a sequence of [key, value] pairs.
EmptyDict == <<>>

\* dict.get(key, default)
Get(d, key, default) == IF key \in DOMAIN d THEN d[key] ELSE default

\* html.escape on the text values of the model: the one value holding a
\* markup character is rewritten, the others hold none
Escape(s) == IF s = "a<b" THEN "a&lt;b" ELSE s

\* html.escape on markup tokens
EscapeToken(tok) ==
    IF tok = "<" THEN "&lt;"
    ELSE IF tok = "</" THEN "&lt;/"
    ELSE IF tok = ">" THEN "&gt;"
    ELSE IF tok = "Q" THEN "&quot;"
    ELSE tok
EscapeTokens(s) == [i \in 1..Len(s) |-> EscapeToken(s[i])]

\* f'{value}' for a number
Str(n) == ToString(n)

FlatCategories == {"Unsupported Features", "Unsupported Flags", "Blocking Features"}

\* ---------------------------------------------------------------- record aggregator
\* summary_item with a missing count defaulting to 'N/A' like the text fields
SummaryItemCountNA(category, item) ==
    [category |-> category,
     rule_id |-> Get(item, "rule-id", "N/A"),
     description |-> Get(item, "description", "N/A"),
     feature |-> Get(item, "feature", "N/A"),
     tag |-> Get(item, "tag", "N/A"),
     group |-> Get(item, "group", "N/A"),
     count |-> Get(item, "count", "N/A"),
     location |-> Get(item, "location", "N/A")]

\* summary_item = {...}
SummaryItem(category, item) ==
    [category |-> category,
     rule_id |-> Get(item, "rule-id", "N/A"),
     description |-> Get(item, "description", "N/A"),
     feature |-> Get(item, "feature", "N/A"),
     tag |-> Get(item, "tag", "N/A"),
     group |-> Get(item, "group", "N/A"),
     count |-> Get(item, "count", 0),
     location |-> Get(item, "location", "N/A")]

RECURSIVE SummaryItems(_, _)
\* for item in details: all_items.append(summary_item)
SummaryItems(category, details) ==
    IF details = <<>> THEN <<>>
    ELSE <<SummaryItem(category, Head(details))>> \o SummaryItems(category, Tail(details))

RECURSIVE AllItemsAnyCategory(_)
\* the collection with the records of every section, whatever its category
AllItemsAnyCategory(d) ==
    IF d = <<>> THEN <<>>
    ELSE LET section == Head(d)
             category == Get(section, "category", "")
         IN SummaryItems(category, Get(section, "details", <<>>))
                \o AllItemsAnyCategory(Tail(d))

RECURSIVE AllItems(_)
\* for section in data: ... collects all_items
AllItems(d) ==
    IF d = <<>> THEN <<>>
    ELSE LET section == Head(d)
             category == Get(section, "category", "")
         IN (IF category \in FlatCategories
             THEN SummaryItems(category, Get(section, "details", <<>>))
             ELSE <<>>) \o AllItems(Tail(d))

CategoryClass(category) ==
    IF category = "Unsupported Features" THEN "category-unsupported"
    ELSE IF category = "Unsupported Flags" THEN "category-flags"
    ELSE IF category = "Blocking Features" THEN "category-blocking"
    ELSE ""

\* one <tr> of the summary table
TableRow(item) ==
    [class |-> CategoryClass(item.category),
     cells |-> <<Escape(item.category), Escape(item.rule_id), Escape(item.description),
                 Escape(item.feature), Escape(item.tag), Escape(item.group),
                 Str(item.count), Escape(item.location)>>]

\* the markup generate_summary_table returns: a list of fragments
generate_summary_table(d) ==
    LET all_items == AllItems(d) IN
    IF all_items = <<>>
    THEN <<[kind |-> "p", class |-> "no-issues", text |-> "No issues found in configuration."]>>
    ELSE <<[kind |-> "table", class |-> "summary-table",
            rows |-> [i \in 1..Len(all_items) |-> TableRow(all_items[i])]]>>

\* ---------------------------------------------------------------- flat renderer
\* ET.indent + ET.tostring of the re-parsed markup: a line break between an
\* element's end and the start of the next
RECURSIVE Indent(_)
Indent(s) ==
    IF Len(s) < 2 THEN s
    ELSE IF s[1] = ">" /\ s[2] \in {"<", "</"}
         THEN <<">", "\n">> \o Indent(Tail(s))
    ELSE <<Head(s)>> \o Indent(Tail(s))

\* pretty_print_xml(xml_string); the markup the resolver returns always parses
pretty_print_xml(r) == IF r.none \/ r.text = <<>> THEN NoneResult ELSE Text(Indent(r.text))

\* the list item with an XML block whenever a tree was supplied, resolved or not
XpathItemBlockWhenTree(root, p) ==
    LET xml_content == IF root # NoTree THEN extract_xml_from_xpath(root, p) ELSE NoneResult
    IN [kind |-> "xpath-item",
        path |-> format_xpath(p),
        xml |-> IF root # NoTree
                THEN <<[kind |-> "xml-content", header |-> "Configuration XML:",
                        code |-> EscapeTokens(Indent(xml_content.text))]>>
                ELSE <<>>]

\* the <li class="xpath-item"> of one locator
XpathItem(root, p) ==
    LET xml_content == IF root # NoTree THEN extract_xml_from_xpath(root, p) ELSE NoneResult
        pretty_xml == pretty_print_xml(xml_content)
    IN [kind |-> "xpath-item",
        path |-> format_xpath(p),
        xml |-> IF ~xml_content.none /\ ~pretty_xml.none
                THEN <<[kind |-> "xml-content", header |-> "Configuration XML:",
                        code |-> EscapeTokens(pretty_xml.text)]>>
                ELSE <<>>]

\* the list of one template with a tree supplied: only the locators that resolve
XpathGroupResolvedOnly(root, pair) ==
    LET shown == SelectSeq(pair.value,
                     LAMBDA p : root = NoTree \/ ~extract_xml_from_xpath(root, p).none)
    IN [kind |-> "xpath-template",
        template |-> Escape(pair.key),
        items |-> [i \in 1..Len(shown) |-> XpathItem(root, shown[i])]]

\* for template, xpaths in ref_xpaths['templates'].items(): one heading and one list
XpathGroup(root, pair) ==
    [kind |-> "xpath-template",
     template |-> Escape(pair.key),
     items |-> [i \in 1..Len(pair.value) |-> XpathItem(root, pair.value[i])]]

\* the blocks a card carries after its info rows
CardExtras(item, root) ==
    LET ref_in == Get(item, "referenced-in", EmptyDict)
        templates == Get(ref_in, "templates", <<>>)
        ref_xpaths == Get(item, "referenced-in-with-xpaths", EmptyDict)
        xtemplates == Get(ref_xpaths, "templates", <<>>)
    IN (IF templates # <<>>
        THEN <<[kind |-> "referenced-section",
                templates |-> [i \in 1..Len(templates) |-> Escape(templates[i])]]>>
        ELSE <<>>)
       \o
       (IF xtemplates # <<>>
        THEN <<[kind |-> "xpath-section",
                groups |-> [i \in 1..Len(xtemplates) |-> XpathGroup(root, xtemplates[i])]]>>
        ELSE <<>>)

\* one <div class="detail-card unsupported">
DetailCard(item, root) ==
    [kind |-> "detail-card",
     description |-> Escape(Get(item, "description", "N/A")),
     badge |-> "Unsupported",
     rule_id |-> Escape(Get(item, "rule-id", "N/A")),
     feature |-> Escape(Get(item, "feature", "N/A")),
     tag |-> Escape(Get(item, "tag", "N/A")),
     group |-> Escape(Get(item, "group", "N/A")),
     count |-> Str(Get(item, "count", 0)),
     location |-> Escape(Get(item, "location", "N/A")),
     extras |-> CardExtras(item, root)]

generate_unsupported_features_section(details, root) ==
    IF details = <<>>
    THEN <<[kind |-> "p", class |-> "no-issues", text |-> "No unsupported features found."]>>
    ELSE <<[kind |-> "details-grid",
            cards |-> [i \in 1..Len(details) |-> DetailCard(details[i], root)]]>>

generate_unsupported_flags_section(details, root) ==
    IF details = <<>>
    THEN <<[kind |-> "p", class |-> "no-issues", text |-> "No unsupported flags found."]>>
    ELSE generate_unsupported_features_section(details, root)

\* the blocking section without a message of its own
BlockingSectionNoMessage(details, root) ==
    generate_unsupported_features_section(details, root)

generate_blocking_features_section(details, root) ==
    IF details = <<>>
    THEN <<[kind |-> "p", class |-> "success", text |-> "No blocking features found."]>>
    ELSE generate_unsupported_features_section(details, root)

\* ---------------------------------------------------------------- summary and template renderers
\* one <div class="summary-item">
SummaryGridItem(item) ==
    [label |-> Escape(Get(item, "description", "N/A")),
     value |-> IF "count" \in DOMAIN item THEN Escape(Str(item["count"])) ELSE "N/A"]

generate_config_summary_section(details) ==
    IF details = <<>>
    THEN <<[kind |-> "p", class |-> "", text |-> "No configuration summary available."]>>
    ELSE <<[kind |-> "summary-grid",
            items |-> [i \in 1..Len(details) |-> SummaryGridItem(details[i])]]>>

\* the list of one of the two drop lists of a template, when it is not empty
FeatureList(template_data, key, title) ==
    LET features == Get(template_data, key, <<>>) IN
    IF features # <<>>
    THEN <<[title |-> title, features |-> [i \in 1..Len(features) |-> Escape(features[i])]]>>
    ELSE <<>>

\* one <div class="template-card">
TemplateCard(pair) ==
    [name |-> Escape(pair.key),
     sections |-> FeatureList(pair.value, "unsupported-drop", "Unsupported Features:")
                  \o FeatureList(pair.value, "supported-drop", "Supported but Dropped:")]

generate_templates_section(details) ==
    IF details = <<>>
    THEN <<[kind |-> "p", class |-> "", text |-> "No template details available."]>>
    ELSE <<[kind |-> "templates-grid",
            cards |-> [i \in 1..Len(details) |-> TemplateCard(details[i])]]>>

\* ---------------------------------------------------------------- device group renderer
\* StatusOf testing the partial counter before the unsupported one
StatusOfPartialFirst(group) ==
    LET total_unsupported == Get(group, "total-unsupported", 0)
        total_partial == Get(group, "total-partially-supported", 0)
    IN IF total_partial > 0
       THEN [class |-> "has-partial",
             badge |-> [kind |-> "badge", class |-> "badge-warning",
                        text |-> Str(total_partial) \o " partial"]]
       ELSE IF total_unsupported > 0
       THEN [class |-> "has-unsupported",
             badge |-> [kind |-> "badge", class |-> "badge-error",
                        text |-> Str(total_unsupported) \o " unsupported"]]
       ELSE [class |-> "has-none",
             badge |-> [kind |-> "badge", class |-> "badge-success", text |-> "All supported"]]

\* the status class and badge of one group, from its own counters
StatusOf(group) ==
    LET total_unsupported == Get(group, "total-unsupported", 0)
        total_partial == Get(group, "total-partially-supported", 0)
    IN IF total_unsupported > 0
       THEN [class |-> "has-unsupported",
             badge |-> [kind |-> "badge", class |-> "badge-error",
                        text |-> Str(total_unsupported) \o " unsupported"]]
       ELSE IF total_partial > 0
       THEN [class |-> "has-partial",
             badge |-> [kind |-> "badge", class |-> "badge-warning",
                        text |-> Str(total_partial) \o " partial"]]
       ELSE [class |-> "has-none",
             badge |-> [kind |-> "badge", class |-> "badge-success", text |-> "All supported"]]

\* ', '.join(escape(x) for x in names)
EscapedNames(names) == [i \in 1..Len(names) |-> Escape(names[i])]

\* the <div class="group-info"> of one optional list, when it is not empty
GroupInfo(group, key, label) ==
    IF Get(group, key, <<>>) # <<>>
    THEN <<[kind |-> "group-info", label |-> label, names |-> EscapedNames(group[key])]>>
    ELSE <<>>

\* the <div class="device-group ..."> of one group, without its children
GroupBlock(group, level) ==
    LET status == StatusOf(group) IN
    [kind |-> "device-group",
     class |-> status.class,
     margin_left |-> level * 20,
     parts |-> <<[kind |-> "group-name", text |-> Escape(Get(group, "name", "Unknown"))],
                 status.badge>>
               \o GroupInfo(group, "devices", "Devices:")
               \o GroupInfo(group, "template-stacks", "Template Stacks:")
               \o GroupInfo(group, "templates", "Templates:")]

RECURSIVE generate_device_group_tree(_, _)
RECURSIVE GroupTrees(_, _)
\* the block of the group, then the blocks of its children one level deeper
generate_device_group_tree(group, level) ==
    <<GroupBlock(group, level)>> \o GroupTrees(Get(group, "children", <<>>), level + 1)
\* for child in children: html += generate_device_group_tree(child, level + 1)
GroupTrees(groups, level) ==
    IF groups = <<>> THEN <<>>
    ELSE generate_device_group_tree(Head(groups), level) \o GroupTrees(Tail(groups), level)

generate_device_groups_section(details) ==
    IF details = <<>>
    THEN <<[kind |-> "p", class |-> "", text |-> "No device group details available."]>>
    ELSE <<[kind |-> "device-groups-container", blocks |-> GroupTrees(details, 0)]>>

\* ---------------------------------------------------------------- report assembler
RECURSIVE SectionsDict(_)
\* sections = {}; for section in data: sections[category] = details
\* (a later section of the same category replaces the earlier one)
SectionsDict(d) ==
    IF d = <<>> THEN EmptyDict
    ELSE LET section == d[Len(d)]
             category == Get(section, "category", "Unknown")
         IN (category :> Get(section, "details", <<>>))
                @@ SectionsDict(SubSeq(d, 1, Len(d) - 1))

\* a test that takes every section as there and not empty
TruthyAlways(sections, cat) == TRUE

\* sections.get(cat) is truthy
Truthy(sections, cat) == cat \in DOMAIN sections /\ sections[cat] # <<>>

\* Present asking for a non-empty section instead of a present one
PresentIfNotEmpty(sections, cat) == cat \in DOMAIN sections /\ sections[cat] # <<>>

\* 'X' in sections
Present(sections, cat) == cat \in DOMAIN sections

\* any(sections.get(cat) for cat in [the three flat categories])
AnyFlat(sections) == \E cat \in FlatCategories : Truthy(sections, cat)

TocEntry(anchor, title) == [anchor |-> anchor, title |-> Escape(title)]
When(cond, seq) == IF cond THEN seq ELSE <<>>

\* the clock ticks this many times a second
TicksPerSecond == 2

\* datetime.now().strftime('%Y-%m-%d %H:%M:%S'): the time cut to whole seconds
Strftime(now) == Str(now \div TicksPerSecond)

\* a section heading that carries the time of rendering
H2Stamped(id, title) ==
    [kind |-> "h2", id |-> id, title |-> title \o " " \o Strftime(clock)]

\* toc_entries
TocEntries(sections) ==
    When(AnyFlat(sections), <<TocEntry("summary", "Summary of Issues")>>)
    \o When(Truthy(sections, "Unsupported Features"),
            <<TocEntry("unsupported-features", "Unsupported Features")>>)
    \o When(Truthy(sections, "Unsupported Flags"),
            <<TocEntry("unsupported-flags", "Unsupported Flags")>>)
    \o When(Truthy(sections, "Blocking Features"),
            <<TocEntry("blocking-features", "Blocking Features")>>)
    \o When(Truthy(sections, "Configuration Summary"),
            <<TocEntry("config-summary", "Configuration Summary")>>)
    \o When(Truthy(sections, "Templates"), <<TocEntry("templates", "Templates")>>)
    \o When("Template-stacks" \in DOMAIN sections,
            <<TocEntry("template-stacks", "Template Stacks")>>)
    \o When(Truthy(sections, "Device Groups"), <<TocEntry("device-groups", "Device Groups")>>)

H2(id, title) == [kind |-> "h2", id |-> id, title |-> title]

\* the body: the headings and section fragments appended to html, in order
Body(d, sections, root) ==
    When(AnyFlat(sections),
         <<H2("summary", "Summary of Issues")>> \o generate_summary_table(d))
    \o When(Present(sections, "Unsupported Features"),
            <<H2("unsupported-features", "Unsupported Features")>>
            \o generate_unsupported_features_section(sections["Unsupported Features"], root))
    \o When(Present(sections, "Unsupported Flags"),
            <<H2("unsupported-flags", "Unsupported Flags")>>
            \o generate_unsupported_flags_section(sections["Unsupported Flags"], root))
    \o When(Present(sections, "Blocking Features"),
            <<H2("blocking-features", "Blocking Features")>>
            \o generate_blocking_features_section(sections["Blocking Features"], root))
    \o When(Present(sections, "Configuration Summary"),
            <<H2("config-summary", "Configuration Summary")>>
            \o generate_config_summary_section(sections["Configuration Summary"]))
    \o When(Present(sections, "Templates"),
            <<H2("templates", "Templates")>>
            \o generate_templates_section(sections["Templates"]))
    \o When(Present(sections, "Template-stacks"),
            <<H2("template-stacks", "Template Stacks")>>
            \o (IF sections["Template-stacks"] # <<>>
                THEN generate_templates_section(sections["Template-stacks"])
                ELSE <<[kind |-> "p", class |-> "",
                        text |-> "No template stack details available."]>>))
    \o When(Present(sections, "Device Groups"),
            <<H2("device-groups", "Device Groups")>>
            \o generate_device_groups_section(sections["Device Groups"]))

\* the page: the "Generated on" line, the contents box and the sections
generate_html_report(d, root) ==
    LET sections == SectionsDict(d) IN
    [generated_on |-> Escape(Strftime(clock)),
     toc |-> TocEntries(sections), body |-> Body(d, sections, root)]

\* ---------------------------------------------------------------- generated documents
\* a record with every field and no reference structure
Rec1 ==
    [description |-> "a<b", feature |-> "f1", tag |-> "t1", group |-> "g1",
     count |-> 3, location |-> "loc1"] @@ ("rule-id" :> "R1")

\* a record with few fields, a template list and two locators
Rec2 ==
    ("description" :> "d2")
    @@ ("referenced-in" :> ("templates" :> <<"T1">>))
    @@ ("referenced-in-with-xpaths" :>
            ("templates" :> <<[key |-> "T1",
                               value |-> << <<SLASH>> \o Pred(<<"a">>) \o <<SLASH, "a">>,
                                            <<SLASH, "e", SLASH>> >>]>>))

RecordPool == {Rec1, Rec2}

SampleTemplates ==
    <<[key |-> "T1", value |-> ("unsupported-drop" :> <<"f1">>)],
      [key |-> "T2", value |-> EmptyDict]>>

SampleGroups ==
    << ("name" :> "root") @@ ("total-unsupported" :> 2)
       @@ ("children" :> << ("name" :> "child") @@ ("total-unsupported" :> 0)
                             @@ ("total-partially-supported" :> 0) >>) >>

Section(category, details) == ("category" :> category) @@ ("details" :> details)

SectionPool ==
    {Section(c, recs) : c \in FlatCategories, recs \in SeqsUpTo(RecordPool, MaxRecs)}
    \cup {("category" :> "Unsupported Flags")}                 \* no details key
    \cup {Section("Configuration Summary", d) :
            d \in {<<>>, <<[description |-> "Templates", count |-> 2]>>}}
    \cup {Section("Templates", d) : d \in {<<>>, SampleTemplates}}
    \cup {Section("Template-stacks", d) : d \in {<<>>, SampleTemplates}}
    \cup {Section("Device Groups", d) : d \in {<<>>, SampleGroups}}
    \cup {Section("Custom", <<Rec1>>)}                          \* an unknown category
    \cup {("details" :> <<Rec1>>)}                              \* no category key

\* the documents of up to n sections
Documents(n) == SeqsUpTo(SectionPool, n)

\* ---------------------------------------------------------------- the aggregator's specification
NoOutput == <<>>

InitDocument ==
    /\ xml_root = NoTree
    /\ xpath = <<>>
    /\ data \in Documents(MaxSections)
    /\ pc = "start"
    /\ out = NoOutput
    /\ NoProcess

GenerateSummaryTable ==
    /\ pc = "start"
    /\ out' = generate_summary_table(data)
    /\ pc' = "done"
    /\ UNCHANGED <<xml_root, xpath, data, clock, main_vars>>

NextAggregate == GenerateSummaryTable

SpecAggregate == InitDocument /\ [][NextAggregate]_vars

\* ---------------------------------------------------------------- the assembler's specification
GenerateHtmlReport ==
    /\ pc = "start"
    /\ out' = generate_html_report(data, xml_root)
    /\ pc' = "done"
    /\ UNCHANGED <<xml_root, xpath, data, clock, main_vars>>

NextReport == GenerateHtmlReport

SpecReport == InitDocument /\ [][NextReport]_vars

\* ---------------------------------------------------------------- the device group renderer's specification
\* the counters and lists one generated group carries
GroupLabels ==
    { EmptyDict,
      ("total-unsupported" :> 0) @@ ("total-partially-supported" :> 0),
      ("total-unsupported" :> 2) @@ ("total-partially-supported" :> 0),
      ("total-unsupported" :> 0) @@ ("total-partially-supported" :> 1),
      ("total-unsupported" :> 2) @@ ("total-partially-supported" :> 1),
      ("total-partially-supported" :> 1) @@ ("devices" :> <<"d1", "d2">>)
          @@ ("templates" :> <<"T1">>) }

\* the group tree below node n of a table of groups (parent[i] < i, 0 for a
\* root group): the JSON object of the group, children nested
RECURSIVE GroupObject(_, _)
GroupObject(t, n) ==
    LET kids == SortedSeq({i \in 1..Len(t.parent) : t.parent[i] = n})
    IN ("name" :> ("g" \o ToString(n))) @@ t.label[n]
       @@ (IF kids = <<>> THEN EmptyDict
           ELSE ("children" :> [i \in 1..Len(kids) |-> GroupObject(t, kids[i])]))

GroupForest(t) ==
    LET roots == SortedSeq({i \in 1..Len(t.parent) : t.parent[i] = 0})
    IN [i \in 1..Len(roots) |-> GroupObject(t, roots[i])]

GroupForestsOfSize(n) ==
    { GroupForest([parent |-> par, label |-> lab]) :
        par \in {p \in [1..n -> 0..(n - 1)] : \A i \in 1..n : p[i] < i},
        lab \in [1..n -> GroupLabels] }

\* the forests of up to n groups
GroupForests(n) == UNION {GroupForestsOfSize(k) : k \in 0..n}

InitGroups ==
    /\ xml_root = NoTree
    /\ xpath = <<>>
    /\ data \in {<<Section("Device Groups", f)>> : f \in GroupForests(MaxGroups)}
    /\ pc = "start"
    /\ out = NoOutput
    /\ NoProcess

GenerateDeviceGroupsSection ==
    /\ pc = "start"
    /\ out' = generate_device_groups_section(Get(data[1], "details", <<>>))
    /\ pc' = "done"
    /\ UNCHANGED <<xml_root, xpath, data, clock, main_vars>>

NextGroups == GenerateDeviceGroupsSection

SpecGroups == InitGroups /\ [][NextGroups]_vars

\* ---------------------------------------------------------------- repeated renderings
MaxLocators == 2    \* locators in the path list of a generated record
MaxClock == 2       \* ticks the clock advances between two renderings

\* locators of a record: one through a named entry, one through a bare tag,
\* one with a malformed predicate, which no tree resolves
LocatorPool ==
    { <<SLASH>> \o Pred(<<"a">>) \o <<SLASH, "a">>,
      <<SLASH, "a">>,
      <<SLASH, "P", "Q", "a">> }

\* a record whose reference structure holds one path list, and maybe a second
LocatorRecord(paths, more) ==
    ("rule-id" :> "R2") @@ ("description" :> "a<b")
    @@ ("referenced-in-with-xpaths" :>
            ("templates" :> (<<[key |-> "T1", value |-> paths]>> \o more)))

LocatorRecords ==
    { LocatorRecord(paths, more) :
        paths \in SeqsUpTo(LocatorPool, MaxLocators),
        more \in {<<>>, <<[key |-> "T2", value |-> << <<SLASH, "a">> >>]>>} }

\* a flat section of a record with locators and maybe one without, then a
\* non-flat section
LocatorDocuments ==
    { <<Section(c, <<r>> \o tail), Section("Templates", SampleTemplates)>> :
        c \in FlatCategories, r \in LocatorRecords, tail \in {<<>>, <<Rec1>>} }

\* the parsed configuration documents: a root and two more elements, or None
ConfigTrees == TreesOfSize(3) \cup {NoTree}

InitRuns ==
    /\ xml_root \in ConfigTrees
    /\ xpath = <<>>
    /\ data \in LocatorDocuments
    /\ pc = "start"
    /\ out = NoOutput
    /\ NoProcess

\* generate_html_report(data): no enrichment document
RenderPlain ==
    /\ pc = "start"
    /\ out' = [plain |-> generate_html_report(data, NoTree)]
    /\ pc' = "plain"
    /\ UNCHANGED <<xml_root, xpath, data, clock, main_vars>>

\* generate_html_report(data, xml_root)
RenderEnriched ==
    /\ pc = "plain"
    /\ out' = [plain |-> out.plain, first |-> generate_html_report(data, xml_root)]
    /\ pc' = "first"
    /\ UNCHANGED <<xml_root, xpath, data, clock, main_vars>>

\* time passes between two calls
Tick ==
    /\ pc = "first"
    /\ clock < MaxClock
    /\ clock' = clock + 1
    /\ UNCHANGED <<xml_root, xpath, data, pc, out, main_vars>>

\* generate_html_report(data, xml_root), once more
RenderAgain ==
    /\ pc = "first"
    /\ out' = [plain |-> out.plain, first |-> out.first,
               second |-> generate_html_report(data, xml_root)]
    /\ pc' = "done"
    /\ UNCHANGED <<xml_root, xpath, data, clock, main_vars>>

NextRuns == RenderPlain \/ RenderEnriched \/ Tick \/ RenderAgain

SpecRuns == InitRuns /\ [][NextRuns]_vars

\* ---------------------------------------------------------------- main
MaxArgs == 4        \* arguments after the program name in a generated argv

\* An argument is a sequence of tokens: "--" is the text of two dashes at its
\* start, "." and "/" are themselves, every other token is plain text.
XmlFlag == <<"--", "xml">>
ReportSuffix == <<"-report", ".", "html">>

\* arg.startswith('--')
StartsWithDashes(arg) == arg # <<>> /\ Head(arg) = "--"

\* input_file.rsplit('.', 1)[0]: the text before the last '.', all of it
\* when there is none
RSplitStem(path) ==
    LET dots == {k \in 1..Len(path) : path[k] = "."} IN
    IF dots = {} THEN path
    ELSE SubSeq(path, 1, (CHOOSE k \in dots : \A m \in dots : k >= m) - 1)

\* the while loop of main from position i on (argv[1] is the program name,
\* so sys.argv[i] of the code is argv[i + 1] here)
RECURSIVE ScanArgs(_, _, _, _)
ScanArgs(args, i, outp, xmlp) ==
    IF i > Len(args) THEN [output_file |-> outp, xml_file |-> xmlp]
    ELSE IF args[i] = XmlFlag /\ i + 1 <= Len(args)
         THEN ScanArgs(args, i + 2, outp, args[i + 1])
    ELSE IF outp = NoPath /\ ~StartsWithDashes(args[i])
         THEN ScanArgs(args, i + 1, args[i], xmlp)
    ELSE ScanArgs(args, i + 1, outp, xmlp)

\* a loader that reports invalid JSON and goes on with an empty document
load_json_file_lenient(file) ==
    IF file.state = "ok"
    THEN [value |-> file.content, printed |-> <<>>, exit |-> FALSE, raised |-> FALSE]
    ELSE IF file.state = "missing"
    THEN [value |-> EmptyData, printed |-> <<"Error: File not found.">>,
          exit |-> TRUE, raised |-> FALSE]
    ELSE IF file.state = "invalid"
    THEN [value |-> EmptyData, printed |-> <<"Error: Invalid JSON">>,
          exit |-> FALSE, raised |-> FALSE]
    ELSE [value |-> EmptyData, printed |-> <<>>, exit |-> FALSE, raised |-> TRUE]

\* load_json_file(filepath), file being what the path names: the parsed
\* document; a message and sys.exit(1) for a missing file or invalid JSON; any
\* other failure to open or read is an exception nobody catches
load_json_file(file) ==
    IF file.state = "ok"
    THEN [value |-> file.content, printed |-> <<>>, exit |-> FALSE, raised |-> FALSE]
    ELSE IF file.state = "missing"
    THEN [value |-> EmptyData, printed |-> <<"Error: File not found.">>,
          exit |-> TRUE, raised |-> FALSE]
    ELSE IF file.state = "invalid"
    THEN [value |-> EmptyData, printed |-> <<"Error: Invalid JSON">>,
          exit |-> TRUE, raised |-> FALSE]
    ELSE [value |-> EmptyData, printed |-> <<>>, exit |-> FALSE, raised |-> TRUE]

\* a loader for which a missing or invalid configuration file is an exception
load_xml_file_strict(filepath, file) ==
    IF filepath = NoPath
    THEN [value |-> NoTree, printed |-> <<>>, raised |-> FALSE]
    ELSE IF file.state = "ok"
    THEN [value |-> file.content, printed |-> <<>>, raised |-> FALSE]
    ELSE [value |-> NoTree, printed |-> <<>>, raised |-> TRUE]

\* load_xml_file(filepath): the root of the parsed document; None without a
\* path; a warning and None for a missing file or invalid XML; any other
\* failure to open or read is an exception nobody catches
load_xml_file(filepath, file) ==
    IF filepath = NoPath
    THEN [value |-> NoTree, printed |-> <<>>, raised |-> FALSE]
    ELSE IF file.state = "ok"
    THEN [value |-> file.content, printed |-> <<>>, raised |-> FALSE]
    ELSE IF file.state = "missing"
    THEN [value |-> NoTree, printed |-> <<"Warning: XML file not found.">>, raised |-> FALSE]
    ELSE IF file.state = "invalid"
    THEN [value |-> NoTree, printed |-> <<"Warning: Invalid XML">>, raised |-> FALSE]
    ELSE [value |-> NoTree, printed |-> <<>>, raised |-> TRUE]

\* what the interpreter prints for an exception nobody caught
Traceback == <<"Traceback">>

\* if len(sys.argv) < 2: the usage text and sys.exit(1)
Usage ==
    /\ pc = "main"
    /\ Len(argv) < 2
    /\ log' = log \o <<"Usage">>
    /\ exit_code' = 1
    /\ pc' = "exit"
    /\ UNCHANGED <<xml_root, xpath, data, out, clock, argv, disk_input, disk_xml,
                   input_file, output_file, xml_file, opened, written>>

\* the scan of the arguments and the default output path
ParseArgs ==
    /\ pc = "main"
    /\ Len(argv) >= 2
    /\ LET scan == ScanArgs(argv, 3, NoPath, NoPath) IN
        /\ input_file' = argv[2]
        /\ xml_file' = scan.xml_file
        /\ output_file' = IF scan.output_file = NoPath
                          THEN RSplitStem(argv[2]) \o ReportSuffix
                          ELSE scan.output_file
    /\ pc' = "load_json"
    /\ UNCHANGED <<xml_root, xpath, data, out, clock, argv, disk_input, disk_xml,
                   opened, written, log, exit_code>>

\* data = load_json_file(input_file)
LoadJson ==
    /\ pc = "load_json"
    /\ LET r == load_json_file(disk_input) IN
        /\ opened' = Append(opened, input_file)
        /\ log' = log \o <<"Loading JSON from">> \o r.printed
                      \o (IF r.raised THEN Traceback ELSE <<>>)
        /\ data' = r.value
        /\ exit_code' = IF r.exit \/ r.raised THEN 1 ELSE exit_code
        /\ pc' = IF r.exit \/ r.raised THEN "exit" ELSE "load_xml"
    /\ UNCHANGED <<xml_root, xpath, out, clock, argv, disk_input, disk_xml,
                   input_file, output_file, xml_file, written>>

\* if xml_file: xml_root = load_xml_file(xml_file)
LoadXml ==
    /\ pc = "load_xml"
    /\ IF xml_file # NoPath
       THEN LET r == load_xml_file(xml_file, disk_xml) IN
            /\ opened' = Append(opened, xml_file)
            /\ xml_root' = r.value
            /\ log' = log \o <<"Loading XML configuration from">> \o r.printed
                          \o (IF r.raised THEN Traceback
                              ELSE IF r.value # NoTree
                              THEN <<"XML configuration loaded successfully">>
                              ELSE <<>>)
            /\ exit_code' = IF r.raised THEN 1 ELSE exit_code
            /\ pc' = IF r.raised THEN "exit" ELSE "render"
       ELSE /\ pc' = "render"
            /\ UNCHANGED <<opened, xml_root, log, exit_code>>
    /\ UNCHANGED <<xpath, data, out, clock, argv, disk_input, disk_xml,
                   input_file, output_file, xml_file, written>>

\* html_content = generate_html_report(data, xml_root)
Render ==
    /\ pc = "render"
    /\ log' = Append(log, "Generating HTML report...")
    /\ out' = generate_html_report(data, xml_root)
    /\ pc' = "write"
    /\ UNCHANGED <<xml_root, xpath, data, clock, argv, disk_input, disk_xml,
                   input_file, output_file, xml_file, opened, written, exit_code>>

\* with open(output_file, 'w') as f: f.write(html_content), and the end of main
Write ==
    /\ pc = "write"
    /\ written' = Append(written, [path |-> output_file, content |-> out])
    /\ log' = log \o <<"Writing report to", "Report generated successfully">>
                  \o (IF xml_root # NoTree
                      THEN <<"(includes extracted XML content from configuration)">>
                      ELSE <<>>)
    /\ exit_code' = 0
    /\ pc' = "done"
    /\ UNCHANGED <<xml_root, xpath, data, out, clock, argv, disk_input, disk_xml,
                   input_file, output_file, xml_file, opened>>

NextMain == Usage \/ ParseArgs \/ LoadJson \/ LoadXml \/ Render \/ Write

\* ---------------------------------------------------------------- runs of main
ProgramName == <<"scm-report-parser", ".", "py">>

\* the arguments a command line is made of
ArgPool ==
    { XmlFlag, <<"--", "foo">>,
      <<"in", ".", "json">>, <<"out", ".", "html">>, <<"cfg", ".", "xml">>,
      <<"d", ".", "v", "/", "in">> }     \* no extension, a dot in the directory

ArgVectors == {<<ProgramName>> \o args : args \in SeqsUpTo(ArgPool, MaxArgs)}

\* the files a path can name: not there, not readable, not well-formed, or
\* holding a document
DiskTrees == TreesOfSize(2)
DiskDocuments ==
    { <<>>,
      <<Section("Unsupported Features",
                <<LocatorRecord(<< <<SLASH, "a">>, <<SLASH, "b">> >>, <<>>)>>)>>,
      <<Section("Blocking Features", <<Rec1, Rec2>>), Section("Templates", SampleTemplates)>> }
BadFiles == {[state |-> "missing"], [state |-> "denied"], [state |-> "invalid"]}
JsonFiles == BadFiles \cup {[state |-> "ok", content |-> d] : d \in DiskDocuments}
XmlFiles == BadFiles \cup {[state |-> "ok", content |-> t] : t \in DiskTrees}

\* the state of a process at the start of main
AtStart ==
    /\ xml_root = NoTree
    /\ xpath = <<>>
    /\ data = EmptyData
    /\ pc = "main"
    /\ out = NoOutput
    /\ input_file = NoPath
    /\ output_file = NoPath
    /\ xml_file = NoPath
    /\ opened = <<>>
    /\ written = <<>>
    /\ log = <<>>
    /\ exit_code = Running

\* the usual command lines, every state of the two files, any time of day
MainArgVectors ==
    {<<ProgramName>> \o args : args \in
        { <<>>,
          << <<"in", ".", "json">> >>,
          << <<"in", ".", "json">>, <<"out", ".", "html">> >>,
          << <<"in", ".", "json">>, XmlFlag, <<"cfg", ".", "xml">> >>,
          << <<"in", ".", "json">>, <<"out", ".", "html">>, XmlFlag, <<"cfg", ".", "xml">> >>,
          << <<"in", ".", "json">>, XmlFlag >> }}

InitMain ==
    /\ argv \in MainArgVectors
    /\ disk_input \in JsonFiles
    /\ disk_xml \in XmlFiles
    /\ clock \in 0..MaxClock
    /\ AtStart

SpecMain == InitMain /\ [][NextMain]_vars

\* every command line, both files in place or the configuration file missing
InitArgs ==
    /\ argv \in ArgVectors
    /\ disk_input = [state |-> "ok", content |-> <<>>]
    /\ disk_xml \in {[state |-> "missing"]} \cup {[state |-> "ok", content |-> t] : t \in DiskTrees}
    /\ clock = 0
    /\ AtStart

SpecArgs == InitArgs /\ [][NextMain]_vars

\* ================================================================ properties
\* ---------------------------------------------------------------- segments, stated apart from the code
\* seg holds entry[@name="v"] with v = seg[i+2 .. j-1], non-empty and quote-free
PredicateAt(seg, i, j) ==
    /\ i >= 1 /\ j + 1 <= Len(seg) /\ j >= i + 3
    /\ seg[i] = "P" /\ seg[i + 1] = "Q" /\ seg[j] = "Q" /\ seg[j + 1] = "R"
    /\ \A k \in (i + 2)..(j - 1) : seg[k] # "Q"

PredicateSpans(seg) ==
    {ij \in (1..Len(seg)) \X (1..Len(seg)) : PredicateAt(seg, ij[1], ij[2])}

CarriesPrefix(seg) == \E i \in 1..Len(seg) : seg[i] = "P"
IsPredicateSegment(seg) == PredicateSpans(seg) # {}
IsMalformedSegment(seg) == CarriesPrefix(seg) /\ ~IsPredicateSegment(seg)

\* the value of the leftmost well-formed predicate of seg
ExtractedValue(seg) ==
    LET ij == CHOOSE x \in PredicateSpans(seg) : \A y \in PredicateSpans(seg) : x[1] <= y[1]
    IN SubSeq(seg, ij[1] + 2, ij[2] - 1)

\* node n of tree t is what segment seg asks for
SegMatches(t, seg, n) ==
    IF CarriesPrefix(seg)
    THEN IsPredicateSegment(seg) /\ t.tag[n] = <<"e">> /\ t.name[n] = ExtractedValue(seg)
    ELSE t.tag[n] = seg

\* the nodes reached by matching the first k segments in order, one tree level
\* per segment, whichever matching child is taken at each level
RECURSIVE ChainEnds(_, _, _)
ChainEnds(t, segs, k) ==
    IF k = 0 THEN {1}
    ELSE LET before == ChainEnds(t, segs, k - 1)
         IN {n \in 1..Len(t.parent) : t.parent[n] \in before /\ SegMatches(t, segs[k], n)}

\* the node a greedy first-match walk stands on after k segments, 0 once a
\* segment found no matching child of the node before it
RECURSIVE GreedyNode(_, _, _)
GreedyNode(t, segs, k) ==
    IF k = 0 THEN 1
    ELSE LET prev == GreedyNode(t, segs, k - 1)
             cand == IF prev = 0 THEN {}
                     ELSE {n \in Children(t, prev) : SegMatches(t, segs[k], n)}
         IN IF cand = {} THEN 0
            ELSE CHOOSE n \in cand : \A m \in cand : n <= m

Resolved == pc = "done" /\ xml_root # NoTree /\ xpath # NotAString

\* C1: extract_xml_from_xpath never raises and never returns a partial
\* result: it returns None when root is absent, when a predicate segment is
\* malformed, or when some segment has no matching child of the node the walk
\* stands on; a non-None result is the markup of a node reached by matching
\* every segment in order.
C1_NoneUnlessEverySegmentMatched ==
    pc = "done" =>
        /\ ~out.raised
        /\ (xml_root = NoTree \/ xpath = NotAString) => out.none
        /\ Resolved =>
            LET segs == NonEmptyParts(xpath)
                ends == ChainEnds(xml_root, segs, Len(segs))
            IN /\ (\E i \in 1..Len(segs) : IsMalformedSegment(segs[i])) => out.none
               /\ GreedyNode(xml_root, segs, Len(segs)) = 0 => out.none
               /\ ends = {} => out.none
               /\ ~out.none => \E n \in ends : out.text = ET_tostring(xml_root, n)

\* C1 witness: the first of two well-formed segments matched a child of the
\* root, the second matched nothing under it, and the result is None
C1_Witness ==
    /\ Resolved
    /\ LET segs == NonEmptyParts(xpath) IN
        /\ Len(segs) = 2
        /\ ~IsMalformedSegment(segs[1]) /\ ~IsMalformedSegment(segs[2])
        /\ GreedyNode(xml_root, segs, 1) # 0
        /\ GreedyNode(xml_root, segs, 2) = 0
    /\ out.none

\* C2: on success the result is the node reached by the greedy first-match
\* walk from the root's children (first child in document order per
\* segment, never a later sibling), and the walk's failure is None.
C2_GreedyFirstMatch ==
    Resolved =>
        LET segs == NonEmptyParts(xpath)
            g == GreedyNode(xml_root, segs, Len(segs))
        IN out = IF g = 0 THEN NoneResult ELSE Text(ET_tostring(xml_root, g))

\* C2 witness: the whole path exists in the tree, but only under a later
\* sibling of the first match, and the result is None
C2_Witness ==
    /\ Resolved
    /\ ChainEnds(xml_root, NonEmptyParts(xpath), Len(NonEmptyParts(xpath))) # {}
    /\ out.none

\* ---------------------------------------------------------------- formatter
\* the path with its leading and trailing separators removed
Core(p) ==
    LET idx == {k \in 1..Len(p) : p[k] # SLASH} IN
    IF idx = {} THEN <<>>
    ELSE SubSeq(p, CHOOSE k \in idx : \A m \in idx : k <= m,
                   CHOOSE k \in idx : \A m \in idx : k >= m)

\* the path with its leading separators removed
WithoutLeading(p) ==
    LET idx == {k \in 1..Len(p) : p[k] # SLASH} IN
    IF idx = {} THEN <<>>
    ELSE SubSeq(p, CHOOSE k \in idx : \A m \in idx : k <= m, Len(p))

IsBarePath(p) == ~CarriesPrefix(p)

Shown(seg) == IF IsPredicateSegment(seg) THEN ExtractedValue(seg) ELSE seg

\* C4: format_xpath is total, its result starts with '/', and it has one
\* output segment per input segment, in order: the extracted value for a
\* segment with a well-formed predicate, the raw text for a segment with the
\* prefix but not the shape, the segment itself for a bare segment.
C4_SegmentwiseFormat ==
    pc = "done" =>
        LET segs == Split(Core(xpath))
            shown == Split(Tail(out.text))
        IN /\ ~out.none /\ ~out.raised
           /\ Head(out.text) = SLASH
           /\ Len(shown) = Len(segs)
           /\ \A i \in 1..Len(segs) : shown[i] = Shown(segs[i])

\* C4 witness: a path with a well-formed predicate segment, a malformed one
\* and a bare one has been formatted
C4_Witness ==
    /\ pc = "done"
    /\ LET segs == Split(Core(xpath)) IN
        /\ \E i \in 1..Len(segs) : IsPredicateSegment(segs[i]) /\ out.text # xpath
        /\ \E i \in 1..Len(segs) : IsMalformedSegment(segs[i])

\* ---------------------------------------------------------------- input documents, stated apart from the code
\* the category label of section i of the document, "" when it has none
CategoryAt(d, i) == IF "category" \in DOMAIN d[i] THEN d[i]["category"] ELSE ""
\* the records of section i of the document
RecordsAt(d, i) == IF "details" \in DOMAIN d[i] THEN d[i]["details"] ELSE <<>>

IsFlatAt(d, i) == CategoryAt(d, i) \in FlatCategories

\* the number of records of flat sections before section i
RECURSIVE FlatBefore(_, _)
FlatBefore(d, i) ==
    IF i <= 1 THEN 0
    ELSE FlatBefore(d, i - 1)
         + (IF IsFlatAt(d, i - 1) THEN Len(RecordsAt(d, i - 1)) ELSE 0)

\* the number of records the document holds under category c, all sections together
RECURSIVE RecordCount(_, _, _)
RecordCount(d, c, i) ==
    IF i = 0 THEN 0
    ELSE RecordCount(d, c, i - 1)
         + (IF CategoryAt(d, i) = c THEN Len(RecordsAt(d, i)) ELSE 0)

CategoryPresent(d, c) == \E i \in 1..Len(d) : CategoryAt(d, i) = c
AnyFlatRecord(d) == \E c \in FlatCategories : RecordCount(d, c, Len(d)) > 0

TextOr(rec, key) == Escape(IF key \in DOMAIN rec THEN rec[key] ELSE "N/A")
CountOr(rec) == IF "count" \in DOMAIN rec THEN Str(rec["count"]) ELSE "0"

\* the cells of the summary row of one record
ExpectedCells(category, rec) ==
    <<Escape(category), TextOr(rec, "rule-id"), TextOr(rec, "description"),
      TextOr(rec, "feature"), TextOr(rec, "tag"), TextOr(rec, "group"),
      CountOr(rec), TextOr(rec, "location")>>

\* the rows of the summary table among some fragments, none when there is no table
TableRows(fragments) ==
    IF \E k \in 1..Len(fragments) : fragments[k].kind = "table"
    THEN fragments[CHOOSE k \in 1..Len(fragments) : fragments[k].kind = "table"].rows
    ELSE <<>>

\* C5: the aggregator yields exactly one row per record of every section of a
\* flat category and no other row, in section order and then record order,
\* each row copying category, rule id, description, feature, tag, group,
\* count and location with N/A for a missing text field and 0 for a missing
\* count.
C5_OneRowPerFlatRecordInOrder ==
    pc = "done" =>
        LET rows == TableRows(out) IN
        /\ Len(rows) = FlatBefore(data, Len(data) + 1)
        /\ \A i \in 1..Len(data) :
            IsFlatAt(data, i) =>
                \A r \in 1..Len(RecordsAt(data, i)) :
                    rows[FlatBefore(data, i) + r].cells
                        = ExpectedCells(CategoryAt(data, i), RecordsAt(data, i)[r])

\* C5 witness: two flat sections of different categories, the first with two
\* records of which one has no count, were aggregated into three rows
C5_Witness ==
    /\ pc = "done" /\ Len(data) = 2
    /\ IsFlatAt(data, 1) /\ IsFlatAt(data, 2)
    /\ CategoryAt(data, 1) # CategoryAt(data, 2)
    /\ Len(RecordsAt(data, 1)) = 2 /\ Len(RecordsAt(data, 2)) = 1
    /\ \E r \in 1..2 : "count" \notin DOMAIN RecordsAt(data, 1)[r]
    /\ Len(TableRows(out)) = 3

\* ---------------------------------------------------------------- the rendered report
HeadingIndex(body, id) ==
    IF \E k \in 1..Len(body) : body[k].kind = "h2" /\ body[k].id = id
    THEN CHOOSE k \in 1..Len(body) : body[k].kind = "h2" /\ body[k].id = id
    ELSE 0
HasHeading(body, id) == HeadingIndex(body, id) # 0
HasTocEntry(toc, anchor) == \E k \in 1..Len(toc) : toc[k].anchor = anchor

\* the fragments between the heading with this id and the next heading
SectionUnder(body, id) ==
    LET i == HeadingIndex(body, id)
        later == {k \in (i + 1)..Len(body) : body[k].kind = "h2"}
        j == IF later = {} THEN Len(body) + 1
             ELSE CHOOSE k \in later : \A m \in later : k <= m
    IN IF i = 0 THEN <<>> ELSE SubSeq(body, i + 1, j - 1)

\* the detail cards among some fragments
CardsIn(fragments) ==
    IF \E k \in 1..Len(fragments) : fragments[k].kind = "details-grid"
    THEN fragments[CHOOSE k \in 1..Len(fragments) : fragments[k].kind = "details-grid"].cards
    ELSE <<>>

AnchorOf(c) ==
    IF c = "Unsupported Features" THEN "unsupported-features"
    ELSE IF c = "Unsupported Flags" THEN "unsupported-flags"
    ELSE IF c = "Blocking Features" THEN "blocking-features"
    ELSE IF c = "Configuration Summary" THEN "config-summary"
    ELSE IF c = "Templates" THEN "templates"
    ELSE IF c = "Template-stacks" THEN "template-stacks"
    ELSE "device-groups"

\* C6: the table-of-contents summary entry and the Summary of Issues section
\* are present exactly when some flat category has a record in the input,
\* also when a category label occurs in more than one section.
C6_SummaryIffAnyFlatRecord ==
    pc = "done" =>
        /\ HasTocEntry(out.toc, "summary") <=> AnyFlatRecord(data)
        /\ HasHeading(out.body, "summary") <=> AnyFlatRecord(data)

\* the rule id and count of the summary rows of category c, in order
RowKeys(rows, c) ==
    LET mine == SelectSeq(rows, LAMBDA row : row.cells[1] = Escape(c))
    IN [k \in 1..Len(mine) |-> <<mine[k].cells[2], mine[k].cells[7]>>]
\* the rule id and count of some cards, in order
CardKeys(cards) == [k \in 1..Len(cards) |-> <<cards[k].rule_id, cards[k].count>>]

HasXmlBlock(card) ==
    \E e \in 1..Len(card.extras) :
        /\ card.extras[e].kind = "xpath-section"
        /\ \E g \in 1..Len(card.extras[e].groups) :
            \E x \in 1..Len(card.extras[e].groups[g].items) :
                card.extras[e].groups[g].items[x].xml # <<>>

\* C7: every record of a flat category yields exactly one summary row and
\* exactly one detail card in its category's section, with the same rule id
\* and count, rows and cards in one-to-one correspondence; without an
\* enrichment document no card has an XML-content block.
C7_RowsMatchCards ==
    pc = "done" =>
        \A c \in FlatCategories :
            LET rows == RowKeys(TableRows(SectionUnder(out.body, "summary")), c)
                cards == CardsIn(SectionUnder(out.body, AnchorOf(c)))
            IN /\ Len(rows) = RecordCount(data, c, Len(data))
               /\ Len(cards) = RecordCount(data, c, Len(data))
               /\ rows = CardKeys(cards)
               /\ xml_root = NoTree => \A k \in 1..Len(cards) : ~HasXmlBlock(cards[k])

NoIssuesMarker(c) ==
    IF c = "Unsupported Features"
    THEN [kind |-> "p", class |-> "no-issues", text |-> "No unsupported features found."]
    ELSE IF c = "Unsupported Flags"
    THEN [kind |-> "p", class |-> "no-issues", text |-> "No unsupported flags found."]
    ELSE [kind |-> "p", class |-> "success", text |-> "No blocking features found."]

EmptyFlat(d, c) == CategoryPresent(d, c) /\ RecordCount(d, c, Len(d)) = 0

\* C8: a flat category present with zero records is rendered as its heading
\* followed by its own "no issues" marker and nothing else, so no detail card.
C8_EmptyFlatSectionShowsMarker ==
    pc = "done" =>
        \A c \in FlatCategories :
            EmptyFlat(data, c) =>
                /\ HasHeading(out.body, AnchorOf(c))
                /\ SectionUnder(out.body, AnchorOf(c)) = <<NoIssuesMarker(c)>>

\* C8 witness: a report was rendered for a document whose Blocking Features
\* and Unsupported Flags sections are both present and empty
C8_Witness ==
    /\ pc = "done"
    /\ EmptyFlat(data, "Blocking Features")
    /\ EmptyFlat(data, "Unsupported Flags")
    /\ Len(out.body) = 4

CanonicalOrder ==
    <<"summary", "unsupported-features", "unsupported-flags", "blocking-features",
      "config-summary", "templates", "template-stacks", "device-groups">>
Rank(id) == CHOOSE k \in 1..Len(CanonicalOrder) : CanonicalOrder[k] = id
SectionCategories ==
    FlatCategories \cup {"Configuration Summary", "Templates", "Template-stacks", "Device Groups"}
Headings(body) == SelectSeq(body, LAMBDA f : f.kind = "h2")

\* C9: whatever the order of the input's sections, the headings of the report
\* follow the canonical order; every section but Summary is there exactly
\* when its category is present in the input, empty or not; Summary is there
\* only when a flat category has a record.
C9_CanonicalSectionOrder ==
    pc = "done" =>
        LET hs == Headings(out.body) IN
        /\ \A k \in 1..Len(hs) : \E m \in 1..Len(CanonicalOrder) : CanonicalOrder[m] = hs[k].id
        /\ \A k \in 1..(Len(hs) - 1) : Rank(hs[k].id) < Rank(hs[k + 1].id)
        /\ \A c \in SectionCategories :
            HasHeading(out.body, AnchorOf(c)) <=> CategoryPresent(data, c)
        /\ HasHeading(out.body, "summary") => AnyFlatRecord(data)

\* C9 witness: the input lists Device Groups, empty, before Unsupported
\* Features with records, and the report shows Summary, Unsupported Features,
\* Device Groups in that order
C9_Witness ==
    /\ pc = "done" /\ Len(data) = 2
    /\ CategoryAt(data, 1) = "Device Groups" /\ RecordsAt(data, 1) = <<>>
    /\ CategoryAt(data, 2) = "Unsupported Features" /\ RecordsAt(data, 2) # <<>>
    /\ LET hs == Headings(out.body) IN
        /\ Len(hs) = 3
        /\ hs[1].id = "summary" /\ hs[2].id = "unsupported-features"
        /\ hs[3].id = "device-groups"

\* ---------------------------------------------------------------- device group trees, stated apart from the code
ChildrenOf(group) == IF "children" \in DOMAIN group THEN group["children"] ELSE <<>>
CounterOf(group, key) == IF key \in DOMAIN group THEN group[key] ELSE 0

\* every node of a forest, named by the child positions leading to it
RECURSIVE PathsOf(_)
PathsOf(groups) ==
    UNION { {<<i>>} \cup {<<i>> \o p : p \in PathsOf(ChildrenOf(groups[i]))} :
            i \in 1..Len(groups) }

RECURSIVE NodeAt(_, _)
NodeAt(groups, path) ==
    IF Len(path) = 1 THEN groups[path[1]]
    ELSE NodeAt(ChildrenOf(groups[path[1]]), Tail(path))

\* p comes before q when the tree is read parent first, children in order
PathBefore(p, q) ==
    /\ p # q
    /\ \/ Len(p) < Len(q) /\ SubSeq(q, 1, Len(p)) = p
       \/ \E k \in 1..Len(p) :
            /\ k <= Len(q)
            /\ SubSeq(p, 1, k - 1) = SubSeq(q, 1, k - 1)
            /\ p[k] < q[k]

PositionOf(paths, p) == 1 + Cardinality({q \in paths : PathBefore(q, p)})

\* the badge the node's own counters call for
ExpectedBadge(group) ==
    IF CounterOf(group, "total-unsupported") > 0
    THEN [kind |-> "badge", class |-> "badge-error",
          text |-> ToString(CounterOf(group, "total-unsupported")) \o " unsupported"]
    ELSE IF CounterOf(group, "total-partially-supported") > 0
    THEN [kind |-> "badge", class |-> "badge-warning",
          text |-> ToString(CounterOf(group, "total-partially-supported")) \o " partial"]
    ELSE [kind |-> "badge", class |-> "badge-success", text |-> "All supported"]

GroupsOfData == RecordsAt(data, 1)
BlocksOfOut == IF out[1].kind = "device-groups-container" THEN out[1].blocks ELSE <<>>
BadgesOf(block) == SelectSeq(block.parts, LAMBDA part : part.kind = "badge")

\* C10: every node of a Device Groups tree, at any depth, is rendered as
\* exactly one block with exactly one badge, chosen from the node's own
\* counters (error "<n> unsupported", else warning "<n> partial", else
\* success "All supported"), at a nesting depth one more than its parent's.
C10_OneBlockOneBadgePerGroup ==
    pc = "done" =>
        LET paths == PathsOf(GroupsOfData)
            blocks == BlocksOfOut
        IN /\ Len(blocks) = Cardinality(paths)
           /\ \A p \in paths :
                LET block == blocks[PositionOf(paths, p)]
                    group == NodeAt(GroupsOfData, p)
                IN /\ block.parts[1].text = group["name"]
                   /\ BadgesOf(block) = <<ExpectedBadge(group)>>
                   /\ block.margin_left = 20 * (Len(p) - 1)

\* C10 witness: a root with total-unsupported 2, its child with both counters
\* zero and a grandchild were rendered: "2 unsupported" at depth 0, "All
\* supported" at depth 1, a third block at depth 2
C10_Witness ==
    /\ pc = "done"
    /\ Len(GroupsOfData) = 1
    /\ CounterOf(GroupsOfData[1], "total-unsupported") = 2
    /\ Len(ChildrenOf(GroupsOfData[1])) = 1
    /\ "total-unsupported" \in DOMAIN ChildrenOf(GroupsOfData[1])[1]
    /\ Len(BlocksOfOut) = 3
    /\ BadgesOf(BlocksOfOut[1])[1].text = "2 unsupported"
    /\ BlocksOfOut[1].margin_left = 0
    /\ BadgesOf(BlocksOfOut[2])[1].text = "All supported"
    /\ BlocksOfOut[2].margin_left = 20
    /\ BlocksOfOut[3].margin_left = 40

\* ---------------------------------------------------------------- locators in the cards
\* the (template, path-list) pairs of a record, none when it has no such structure
LocatorPairs(rec) ==
    IF "referenced-in-with-xpaths" \in DOMAIN rec
       /\ "templates" \in DOMAIN rec["referenced-in-with-xpaths"]
    THEN rec["referenced-in-with-xpaths"]["templates"]
    ELSE <<>>

\* the template names a record is referenced in, escaped
ReferencedTemplates(rec) ==
    IF "referenced-in" \in DOMAIN rec /\ "templates" \in DOMAIN rec["referenced-in"]
    THEN [i \in 1..Len(rec["referenced-in"]["templates"]) |->
              Escape(rec["referenced-in"]["templates"][i])]
    ELSE <<>>

\* the node locator p resolves to in tree t, 0 when there is no tree or no node
ResolvedNode(t, p) ==
    IF t = NoTree THEN 0
    ELSE GreedyNode(t, NonEmptyParts(p), Len(NonEmptyParts(p)))

\* the list item of locator p is the formatted path, and carries one XML
\* block exactly when p resolves in t: the escaped, indented markup of the node
ItemAsClaimed(item, t, p) ==
    LET segs == Split(Core(p))
        shown == Split(Tail(item.path))
        g == ResolvedNode(t, p)
    IN /\ item.kind = "xpath-item"
       /\ Head(item.path) = SLASH
       /\ Len(shown) = Len(segs)
       /\ \A i \in 1..Len(segs) : shown[i] = Shown(segs[i])
       /\ item.xml # <<>> <=> g # 0
       /\ g # 0 => item.xml = <<[kind |-> "xml-content", header |-> "Configuration XML:",
                                 code |-> EscapeTokens(Indent(ET_tostring(t, g)))]>>

\* the card of record rec: its fields are the record's, its path section has
\* one list per pair and one item per locator, and nothing else depends on t
CardAsClaimed(card, rec, t) ==
    LET pairs == LocatorPairs(rec)
        paths == SelectSeq(card.extras, LAMBDA f : f.kind = "xpath-section")
        others == SelectSeq(card.extras, LAMBDA f : f.kind # "xpath-section")
    IN /\ card.description = TextOr(rec, "description")
       /\ card.rule_id = TextOr(rec, "rule-id")
       /\ card.feature = TextOr(rec, "feature")
       /\ card.tag = TextOr(rec, "tag")
       /\ card.group = TextOr(rec, "group")
       /\ card.count = CountOr(rec)
       /\ card.location = TextOr(rec, "location")
       /\ others = IF ReferencedTemplates(rec) = <<>> THEN <<>>
                   ELSE <<[kind |-> "referenced-section",
                           templates |-> ReferencedTemplates(rec)]>>
       /\ IF pairs = <<>> THEN paths = <<>>
          ELSE /\ Len(paths) = 1
               /\ Len(paths[1].groups) = Len(pairs)
               /\ \A g \in 1..Len(pairs) :
                    LET group == paths[1].groups[g] IN
                    /\ group.template = Escape(pairs[g].key)
                    /\ Len(group.items) = Len(pairs[g].value)
                    /\ \A x \in 1..Len(pairs[g].value) :
                         ItemAsClaimed(group.items[x], t, pairs[g].value[x])

\* the cards of flat section i of document d in a rendered body
CardsOfSection(body, d, i) == CardsIn(SectionUnder(body, AnchorOf(CategoryAt(d, i))))

\* C11: in the cards of a flat section, every locator of every (template,
\* path-list) pair has its list item with the formatted path; the item carries
\* an XML block exactly when a configuration tree was supplied and the locator
\* resolves to a node; a locator that does not resolve leaves the other
\* fields of the card and the other items as they are.
C11_ItemAlwaysXmlIffResolved ==
    pc \in {"first", "done"} =>
        \A i \in 1..Len(data) :
            IsFlatAt(data, i) =>
                LET cards == CardsOfSection(out.first.body, data, i) IN
                /\ Len(cards) = Len(RecordsAt(data, i))
                /\ \A r \in 1..Len(cards) :
                     CardAsClaimed(cards[r], RecordsAt(data, i)[r], xml_root)

\* C11 witness: with a tree supplied, a path list of two locators was
\* rendered whose first locator does not resolve and whose second does; the
\* first item has no XML block, the second has one
C11_Witness ==
    /\ pc = "first" /\ xml_root # NoTree
    /\ LET pairs == LocatorPairs(RecordsAt(data, 1)[1])
           items == SelectSeq(CardsOfSection(out.first.body, data, 1)[1].extras,
                              LAMBDA f : f.kind = "xpath-section")[1].groups[1].items
       IN /\ Len(pairs[1].value) = 2
          /\ ResolvedNode(xml_root, pairs[1].value[1]) = 0
          /\ ResolvedNode(xml_root, pairs[1].value[2]) > 1
          /\ items[1].xml = <<>> /\ items[2].xml # <<>>

\* ---------------------------------------------------------------- the report with and without a tree
\* a list item, a list, a card and a fragment with the XML blocks taken out
ItemWithoutXml(item) == [item EXCEPT !.xml = <<>>]
GroupWithoutXml(group) ==
    [group EXCEPT !.items = [x \in 1..Len(group.items) |-> ItemWithoutXml(group.items[x])]]
ExtraWithoutXml(f) ==
    IF f.kind = "xpath-section"
    THEN [f EXCEPT !.groups = [g \in 1..Len(f.groups) |-> GroupWithoutXml(f.groups[g])]]
    ELSE f
CardWithoutXml(card) ==
    [card EXCEPT !.extras = [k \in 1..Len(card.extras) |-> ExtraWithoutXml(card.extras[k])]]
FragmentWithoutXml(f) ==
    IF f.kind = "details-grid"
    THEN [f EXCEPT !.cards = [k \in 1..Len(f.cards) |-> CardWithoutXml(f.cards[k])]]
    ELSE f
WithoutXml(body) == [k \in 1..Len(body) |-> FragmentWithoutXml(body[k])]

\* the XML blocks that occur in the cards of a body
RECURSIVE Flatten(_)
Flatten(ss) == IF ss = <<>> THEN <<>> ELSE Head(ss) \o Flatten(Tail(ss))
XmlBlocks(body) ==
    LET cards == Flatten([k \in 1..Len(body) |->
                     IF body[k].kind = "details-grid" THEN body[k].cards ELSE <<>>])
        extras == Flatten([k \in 1..Len(cards) |->
                     SelectSeq(cards[k].extras, LAMBDA f : f.kind = "xpath-section")])
        groups == Flatten([k \in 1..Len(extras) |-> extras[k].groups])
        items == Flatten([k \in 1..Len(groups) |-> groups[k].items])
    IN Flatten([k \in 1..Len(items) |-> items[k].xml])

\* C12: the report rendered with a configuration tree, its XML blocks taken
\* out, is the report rendered from the same document without one: the same
\* contents box, summary table, card fields, formatted paths and non-flat
\* sections.
C12_PlainEqualsEnrichedWithoutXml ==
    pc \in {"first", "done"} =>
        /\ out.first.toc = out.plain.toc
        /\ WithoutXml(out.first.body) = out.plain.body
        /\ XmlBlocks(out.plain.body) = <<>>

\* C12 witness: both reports were rendered, and the one with the tree carries
\* an XML block for one locator and none for another
C12_Witness ==
    /\ pc = "first" /\ xml_root # NoTree
    /\ Len(XmlBlocks(out.first.body)) = 1
    /\ Len(LocatorPairs(RecordsAt(data, 1)[1])[1].value) = 2
    /\ out.first.body # out.plain.body

LogHas(msg) == \E k \in 1..Len(log) : log[k] = msg

\* the first place of a message in the log, 0 when it is not there
LogIndex(msg) ==
    IF LogHas(msg) THEN CHOOSE k \in 1..Len(log) : log[k] = msg /\ \A j \in 1..(k - 1) : log[j] # msg
    ELSE 0

\* what is printed when the primary input cannot be loaded
DiagnosticOf(file) ==
    IF file.state = "missing" THEN "Error: File not found."
    ELSE IF file.state = "invalid" THEN "Error: Invalid JSON"
    ELSE "Traceback"

\* C13: a run whose primary input is missing, unreadable or not well-formed
\* never gets past loading it: it stops there with a diagnostic and exit
\* status 1, and no file is ever written.  In every run the only write is that
\* of the whole rendered report of the loaded document, after the loading and
\* the rendering.
C13_NoReportUnlessLoadedAndRendered ==
    /\ (Len(argv) >= 2 /\ disk_input.state # "ok") =>
        /\ written = <<>>
        /\ pc \in {"main", "load_json", "exit"}
        /\ pc = "exit" =>
            /\ exit_code = 1
            /\ LogHas(DiagnosticOf(disk_input))
            /\ ~ENABLED NextMain
    /\ written # <<>> =>
        /\ disk_input.state = "ok" /\ data = disk_input.content
        /\ written = <<[path |-> output_file,
                        content |-> generate_html_report(data, xml_root)]>>
        /\ 0 < LogIndex("Loading JSON from")
        /\ LogIndex("Loading JSON from") < LogIndex("Generating HTML report...")
        /\ LogIndex("Generating HTML report...") < LogIndex("Writing report to")

\* C13 witness: a run given an output path and a primary input that is not
\* well-formed has ended with the error message, status 1 and nothing written
C13_Witness ==
    /\ pc = "exit" /\ exit_code = 1
    /\ disk_input.state = "invalid"
    /\ Len(argv) = 3 /\ output_file = argv[3]
    /\ LogHas("Error: Invalid JSON")
    /\ written = <<>>

\* what is printed when the configuration document cannot be loaded
WarningOf(file) ==
    IF file.state = "missing" THEN "Warning: XML file not found." ELSE "Warning: Invalid XML"

\* C14: once a run has tried to load a configuration document that is missing
\* or not well-formed, it has no configuration tree and a warning in its log;
\* it never exits with a failure: it stands before the rendering, before the
\* write, or at its end with status 0, and then the one file written is the
\* report rendered from the document without a tree.
C14_BadEnrichmentIsOnlyAWarning ==
    (LogHas("Loading XML configuration from") /\ disk_xml.state \in {"missing", "invalid"}) =>
        /\ xml_root = NoTree
        /\ LogHas(WarningOf(disk_xml))
        /\ ~LogHas("XML configuration loaded successfully")
        /\ ~LogHas("(includes extracted XML content from configuration)")
        /\ exit_code # 1
        /\ pc \in {"render", "write", "done"}
        /\ pc = "write" => out = generate_html_report(data, NoTree)
        /\ pc = "done" =>
            /\ exit_code = 0
            /\ written = <<[path |-> output_file,
                            content |-> generate_html_report(data, NoTree)]>>

\* C14 witness: a run asked for a configuration document that is not
\* well-formed and has written the report of a document with locators
C14_Witness ==
    /\ pc = "done" /\ exit_code = 0
    /\ xml_file # NoPath /\ disk_xml.state = "invalid"
    /\ LogHas("Warning: Invalid XML")
    /\ Len(written) = 1
    /\ Len(data) = 1 /\ LocatorPairs(RecordsAt(data, 1)[1]) # <<>>
    /\ XmlBlocks(written[1].content.body) = <<>>

\* ---------------------------------------------------------------- the command line, stated apart from the code
\* position i of argv holds a --xml the scan reads as the option: it is not
\* the value of an option just before it, and an argument follows it
RECURSIVE IsOptionAt(_)
IsOptionAt(i) ==
    /\ i >= 3 /\ i < Len(argv)
    /\ argv[i] = XmlFlag
    /\ ~IsOptionAt(i - 1)

\* position i holds the value an option consumed
IsValueAt(i) == IsOptionAt(i - 1)

\* the value of the last option, None without one
ClaimedXmlFile ==
    LET opts == {i \in 3..Len(argv) : IsOptionAt(i)} IN
    IF opts = {} THEN NoPath
    ELSE argv[(CHOOSE i \in opts : \A j \in opts : i >= j) + 1]

\* the positions left once options and their values are taken out, that do
\* not start with two dashes
OutputCandidates ==
    {i \in 3..Len(argv) : ~IsOptionAt(i) /\ ~IsValueAt(i) /\ ~StartsWithDashes(argv[i])}

\* where the extension of a path starts: the last '.' of its last component,
\* not the first character of that component; 0 when it has no extension
ExtensionStart(path) ==
    LET slashes == {k \in 1..Len(path) : path[k] = SLASH}
        base == IF slashes = {} THEN 1
                ELSE (CHOOSE k \in slashes : \A m \in slashes : k >= m) + 1
        dots == {k \in (base + 1)..Len(path) : path[k] = "."}
    IN IF dots = {} THEN 0 ELSE CHOOSE k \in dots : \A m \in dots : k >= m

\* the path with its extension replaced by the report suffix
WithReportSuffix(path) ==
    (IF ExtensionStart(path) = 0 THEN path
     ELSE SubSeq(path, 1, ExtensionStart(path) - 1)) \o ReportSuffix

\* the start of the path up to its last '.', or all of it, and the suffix
CutAtLastDot(path) ==
    LET dots == {k \in 1..Len(path) : path[k] = "."} IN
    (IF dots = {} THEN path
     ELSE SubSeq(path, 1, (CHOOSE k \in dots : \A m \in dots : k >= m) - 1)) \o ReportSuffix

\* what the claim says of the scan, the derived output path left open
ScanAsClaimed(derived) ==
    /\ (Len(argv) >= 2 /\ pc # "main") =>
        /\ input_file = argv[2]
        /\ xml_file = ClaimedXmlFile
        /\ output_file = IF OutputCandidates = {} THEN derived
                         ELSE argv[CHOOSE i \in OutputCandidates :
                                       \A j \in OutputCandidates : i <= j]
    /\ Len(argv) < 2 =>
        /\ pc \in {"main", "exit"}
        /\ opened = <<>> /\ written = <<>>
        /\ pc = "exit" => exit_code = 1 /\ log = <<"Usage">>

\* C17: after the scan the enrichment path is the argument after the last
\* --xml read as an option (None without one), the output path is the first
\* remaining argument that does not start with '--', everything else is
\* ignored, and without an output path the output is the input path with its
\* extension replaced by the report suffix; without a primary input the
\* program prints the usage and exits with status 1, no file read or written.
C17_ScanAndDerivedOutput == ScanAsClaimed(WithReportSuffix(argv[2]))

\* the same with the derived output path the code computes: the input path
\* cut at its last '.', wherever that is, and the report suffix
ScanWithOutputCutAtLastDot == ScanAsClaimed(CutAtLastDot(argv[2]))

\* ---------------------------------------------------------------- unknown categories
\* a section whose category label is none of the seven the report knows
IsKnownSection(section) ==
    "category" \in DOMAIN section /\ section["category"] \in SectionCategories
IsUnknownAt(d, i) == ~IsKnownSection(d[i])

\* the document without section i
WithoutSection(d, i) == SubSeq(d, 1, i - 1) \o SubSeq(d, i + 1, Len(d))

\* the rows of the summary table of a report, none when it has no table
SummaryRows(report) == TableRows(SectionUnder(report.body, "summary"))

\* C15 as stated: a section with records under an unknown category gives no
\* row to the summary table and is passed through into the rendered output,
\* so the report is not the one the document without that section gives.
C15_UnknownSectionPassedThrough ==
    pc = "done" =>
        \A i \in 1..Len(data) :
            (IsUnknownAt(data, i) /\ RecordsAt(data, i) # <<>>) =>
                /\ Len(SummaryRows(out)) \in {0, FlatBefore(data, Len(data) + 1)}
                /\ out # generate_html_report(WithoutSection(data, i), xml_root)

\* C15: a section under an unknown category gives no row to the summary
\* table and nothing to the rendered output: every row is of a flat category,
\* every contents entry and heading is one of the fixed eight, and the report
\* is the one rendered from the document without its unknown sections.
C15_UnknownSectionDropped ==
    pc = "done" =>
        /\ Len(SummaryRows(out)) \in {0, FlatBefore(data, Len(data) + 1)}
        /\ \A k \in 1..Len(SummaryRows(out)) :
             \E c \in FlatCategories : SummaryRows(out)[k].cells[1] = Escape(c)
        /\ \A k \in 1..Len(out.toc) :
             \E j \in 1..Len(CanonicalOrder) : out.toc[k].anchor = CanonicalOrder[j]
        /\ \A k \in 1..Len(Headings(out.body)) :
             \E j \in 1..Len(CanonicalOrder) : Headings(out.body)[k].id = CanonicalOrder[j]
        /\ out = generate_html_report(SelectSeq(data, IsKnownSection), xml_root)

\* C15 witness: a document of a section with a record under an unknown
\* category and a flat section with records was rendered; the table has the
\* rows of the flat section only
C15_Witness ==
    /\ pc = "done" /\ Len(data) = 2
    /\ IsUnknownAt(data, 1) /\ "category" \in DOMAIN data[1] /\ RecordsAt(data, 1) # <<>>
    /\ IsFlatAt(data, 2) /\ Len(RecordsAt(data, 2)) = 2
    /\ Len(SummaryRows(out)) = 2
    /\ Len(Headings(out.body)) = 2

\* ---------------------------------------------------------------- contents box and headings
\* C18: every entry of the contents box has a heading with its anchor as id in
\* the body, no two headings share an id, and the entries stand in the order
\* of their headings.
C18_TocEntriesHaveHeadingsInOrder ==
    pc = "done" =>
        /\ \A k \in 1..Len(out.toc) : HasHeading(out.body, out.toc[k].anchor)
        /\ \A j, k \in 1..Len(out.body) :
             (out.body[j].kind = "h2" /\ out.body[k].kind = "h2"
              /\ out.body[j].id = out.body[k].id) => j = k
        /\ \A j, k \in 1..Len(out.toc) :
             j < k => HeadingIndex(out.body, out.toc[j].anchor)
                        < HeadingIndex(out.body, out.toc[k].anchor)

\* C18 witness: a report with two contents entries, Summary and a flat
\* section, and a third heading, of an empty section, that has no entry
C18_Witness ==
    /\ pc = "done"
    /\ Len(out.toc) = 2 /\ out.toc[1].anchor = "summary"
    /\ Len(Headings(out.body)) = 3
    /\ Headings(out.body)[3].id = "device-groups"
    /\ ~HasTocEntry(out.toc, "device-groups")

====
